---- MODULE Spec2Model ----
(***************************************************************************)
(* Model of src/main.py: the /api/generate handler (generate_ppt), the     *)
(* outline parser and layout assigner it calls (text_to_slides) and the    *)
(* /download handler (download_file).                                      *)
(*                                                                         *)
(* Strings the code inspects character by character (the outline text and  *)
(* the request title) are sequences of characters.  A character is the     *)
(* one-character string, written with an escape where TLA+ has one, or,    *)
(* for a character a TLA+ string cannot hold, the string "U+XXXX" naming   *)
(* its code point.  A Python                                               *)
(* Optional is a sequence of length 0 (None) or 1.  The handlers are       *)
(* `async def` without any await, so the event loop runs each of them to   *)
(* completion before it starts the next: one request is in progress at a   *)
(* time, and pc is its position.                                           *)
(*                                                                         *)
(* A slide is recorded as the values the code hands to python-pptx when it *)
(* adds the slide: the layout index, the title text and the bullet texts.  *)
(* The layouts are taken to offer a title and a body placeholder, as the   *)
(* layouts 0..3 the registry names do in a standard template.              *)
(***************************************************************************)
EXTENDS Integers, Sequences, FiniteSets, TLC

(***************************************************************************)
(* Bounds of the model.                                                    *)
(***************************************************************************)
MaxLines == 6        \* lines of an enumerated outline
MaxShortLines == 2   \* lines of an outline enumerated with every kind of line
MaxLayouts == 4      \* layouts a template file offers, 0..MaxLayouts
MaxClock == 3        \* wall clock readings, in ticks, 0..MaxClock
MaxRequests == 2     \* requests one run of the server receives

TicksPerSecond == 2  \* strftime("%Y%m%d-%H%M%S") keeps whole seconds only

(***************************************************************************)
(* Python string helpers.                                                  *)
(***************************************************************************)
\* the characters str.strip() removes: those str.isspace() holds of
Whitespace ==
  { "\t", "\n", "U+000B", "\f", "\r", "U+001C", "U+001D", "U+001E", "U+001F",
    " ", "U+0085", "U+00A0", "U+1680", "U+2000", "U+2001", "U+2002", "U+2003",
    "U+2004", "U+2005", "U+2006", "U+2007", "U+2008", "U+2009", "U+200A",
    "U+2028", "U+2029", "U+202F", "U+205F", "U+3000" }

None == <<>>
Some(x) == <<x>>

RECURSIVE LStrip(_)
LStrip(s) ==
  IF s = <<>> THEN s
  ELSE IF Head(s) \in Whitespace THEN LStrip(Tail(s)) ELSE s

RECURSIVE RStrip(_)
RStrip(s) ==
  IF s = <<>> THEN s
  ELSE IF s[Len(s)] \in Whitespace THEN RStrip(SubSeq(s, 1, Len(s) - 1)) ELSE s

\* str.strip()
Strip(s) == RStrip(LStrip(s))

\* str.split("\n")
RECURSIVE SplitNL(_)
SplitNL(s) ==
  IF \A k \in 1..Len(s) : s[k] # "\n" THEN <<s>>
  ELSE LET k == CHOOSE j \in 1..Len(s) :
                  s[j] = "\n" /\ \A m \in 1..(j - 1) : s[m] # "\n"
       IN <<SubSeq(s, 1, k - 1)>> \o SplitNL(SubSeq(s, k + 1, Len(s)))

\* "\n".join(ls), used to build the request bodies
RECURSIVE JoinNL(_)
JoinNL(ls) ==
  IF Len(ls) = 0 THEN <<>>
  ELSE IF Len(ls) = 1 THEN ls[1]
  ELSE ls[1] \o <<"\n">> \o JoinNL(Tail(ls))

\* str.startswith("-")
StartsWithDash(line) == Len(line) > 0 /\ line[1] = "-"

\* truthiness of a str or a list
Truthy(s) == s # <<>>

\* truthiness of an Optional[str]
TruthyOpt(o) == o # None /\ Truthy(o[1])

(***************************************************************************)
(* The template registry, TEMPLATES (lines 53-89).  Only the fields the    *)
(* code reads are kept.                                                    *)
(***************************************************************************)
TemplateIds == {"default", "blue", "green", "red", "dark"}

TemplateFileOf ==
  [id \in TemplateIds |->
     CASE id = "default" -> "templates/default.pptx"
       [] id = "blue"    -> "templates/blue.pptx"
       [] id = "green"   -> "templates/green.pptx"
       [] id = "red"     -> "templates/red.pptx"
       [] id = "dark"    -> "templates/dark.pptx"]

\* a registry whose descriptors all carry the given layout indices
Registry(cover, content) ==
  [id \in TemplateIds |->
     [file |-> TemplateFileOf[id], cover_layout |-> cover, content_layouts |-> content]]

\* the registry as the source writes it
CodeRegistry == Registry(0, <<1, 2, 3>>)

AllTemplateFiles == {TemplateFileOf[id] : id \in TemplateIds}

(***************************************************************************)
(* Exceptions and responses.                                               *)
(***************************************************************************)
NoError == [kind |-> "None", arg |-> -1]
Raise(kind, arg) == [kind |-> kind, arg |-> arg]

\* line 221: template not in TEMPLATES
TemplateRegisteredAlways(registry, name) == TRUE
TemplateRegistered(registry, name) == name \in DOMAIN registry

\* line 94: TEMPLATES.get(template_name, TEMPLATES["default"])
GetTemplate(registry, name) ==
  IF name \in DOMAIN registry THEN registry[name] ELSE registry["default"]

\* lines 107, 110: idx >= len(prs.slide_layouts)
InvalidIndexOffByOne(idx, n) == idx > n
InvalidIndex(idx, n) == idx >= n

\* lines 107-111: the first index out of range, the cover layout's first
ValidateLayouts(tpl, n) ==
  LET cl == tpl.content_layouts
      bad == {j \in 1..Len(cl) : InvalidIndex(cl[j], n)}
  IN IF InvalidIndex(tpl.cover_layout, n)
       THEN Raise("ValueError", tpl.cover_layout)
     ELSE IF bad # {}
       THEN Raise("ValueError", cl[CHOOSE j \in bad : \A m \in bad : j <= m])
     ELSE NoError

(***************************************************************************)
(* text_to_slides, lines 113-168.                                          *)
(***************************************************************************)
Slide(kind, layout, title, bullets) ==
  [kind |-> kind, layout |-> layout, title |-> title, bullets |-> bullets]

\* lines 114-120: the cover slide takes the title; the subtitle is blanked
CoverLayoutFirstContent(tpl) ==
  IF tpl.content_layouts = <<>> THEN tpl.cover_layout ELSE tpl.content_layouts[1]
CoverLayout(tpl) == tpl.cover_layout

CoverSlide(tpl, title) == Slide("cover", CoverLayout(tpl), title, <<>>)

\* line 123: [l.strip() for l in outline_text.split("\n") if l.strip()]
OutlineLines(text) ==
  LET raw == SplitNL(text)
      stripped == [k \in 1..Len(raw) |-> Strip(raw[k])]
  IN SelectSeq(stripped, Truthy)

\* line 128: lines + [""]
TerminatedNot(ls) == ls
Terminated(ls) == ls \o << <<>> >>

\* lines 130, 149: section_title and bullets
GroupOpenTitleOnly(title, bs) == TruthyOpt(title)
GroupOpen(title, bs) == TruthyOpt(title) /\ Truthy(bs)

\* lines 132, 151: content_layouts[layout_counter % len(content_layouts)]
CurrentLayoutNoWrap(cl, counter) ==
  IF counter < Len(cl) THEN cl[counter + 1] ELSE cl[Len(cl)]
CurrentLayout(cl, counter) == cl[(counter % Len(cl)) + 1]

\* lines 132, 151: the modulo raises ZeroDivisionError on an empty list
ModuloRaises(cl) == Len(cl) = 0

\* lines 145, 164: layout_counter += 1
CounterAfterFlush(counter) == counter + 1

\* line 166: bullets = []
BulletsAfterTitleKept(bs) == bs
BulletsAfterTitle(bs) == <<>>

\* line 168: line[1:].strip()
BulletText(line) == Strip(Tail(line))

\* lines 114, 133, 152: prs.slide_layouts[idx] raises IndexError past the end
NoSuchLayout(idx, n) == idx >= n

\* lines 131-145 and 150-164: add the slide of the open group
Flush(st, cl, n) ==
  IF ModuloRaises(cl)
    THEN [st EXCEPT !.err = Raise("ZeroDivisionError", -1)]
  ELSE IF NoSuchLayout(CurrentLayout(cl, st.layout_counter), n)
    THEN [st EXCEPT !.err = Raise("IndexError", CurrentLayout(cl, st.layout_counter))]
    ELSE [st EXCEPT
            !.slides = Append(@, Slide("content", CurrentLayout(cl, st.layout_counter),
                                       st.section_title[1], st.bullets)),
            !.layout_counter = CounterAfterFlush(@)]

\* lines 129-168: one iteration of the loop, on the locals st
LoopBody(st, line, cl, n) ==
  IF ~Truthy(line) THEN
    IF GroupOpen(st.section_title, st.bullets) THEN
      LET f == Flush(st, cl, n)
      IN IF f.err # NoError THEN f
         ELSE [f EXCEPT !.section_title = None, !.bullets = <<>>]
    ELSE st
  ELSE IF ~StartsWithDash(line) THEN
    LET f == IF GroupOpen(st.section_title, st.bullets) THEN Flush(st, cl, n) ELSE st
    IN IF f.err # NoError THEN f
       ELSE [f EXCEPT !.section_title = Some(line),
                      !.bullets = BulletsAfterTitle(@)]
  ELSE [st EXCEPT !.bullets = Append(@, BulletText(line))]

(***************************************************************************)
(* generate_ppt and download_file, lines 214-251.                          *)
(***************************************************************************)
\* lines 231-232: f"PPT_{ts}.pptx", ts to the second
FileName(clock) == <<"PPT_", clock \div TicksPerSecond, ".pptx">>

FileNames == {FileName(t) : t \in 0..MaxClock}

Response(id, op, status, filename, error, file) ==
  [req |-> id, op |-> op, status |-> status, filename |-> filename,
   error |-> error, file |-> file]

\* lines 238, 240: the body returned at the end of the try block
GenerateResponse(id, e, name) ==
  IF e = NoError
    THEN Response(id, "generate", 200, name, "", None)
    ELSE Response(id, "generate", 500, None, e.kind, None)

(***************************************************************************)
(* Request bodies.                                                         *)
(***************************************************************************)
\* lines of an outline with sections: titles and bullets, with whitespace
SectionLines == { <<"A">>, <<" ", "B", " ">>, <<"-", "x">>,
                  <<" ", "-", " ", "y", " ">> }

\* every kind of raw line: the above, an empty line, a line of whitespace
\* only, a bullet line without text, a title with a "-" inside, a title
\* between form feeds, a bullet after a full-width space and before a
\* carriage return
AllLines ==
  SectionLines \cup
  { <<>>, <<" ", "\t">>, <<"-">>, <<"A", "-", "b">>, <<"\f", "A", "\f">>,
    <<"U+3000", "-", "U+00A0", "z", "\r">> }

SeqsUpTo(S, n) == UNION {[1..k -> S] : k \in 1..n}

\* the outlines named by the documentation, and longer ones
ExampleOutlines ==
  { <<"A", "\n", "-", "x", "\n", "-", "y", "\n", "\n", "B", "\n", "-", "z">>,
    <<"-", "o", "r", "p", "h", "a", "n", "\n", "A", "\n", "-", "x">>,
    <<>>,
    <<"\n", " ", "\n", "A", "\n", "B", "\n", "\t", "\n", "C", "\n", "\n">>,
    JoinNL(<< <<"A">>, <<"-", "x">>, <<"B">>, <<"-", "y">>, <<"C">>, <<"-", "z">>,
              <<"D">>, <<"-", "x">>, <<"-", "y">>, <<"E">>, <<"-", "z">> >>) }

LongOutlines == {JoinNL(ls) : ls \in SeqsUpTo(SectionLines, MaxLines)}
ShortOutlines ==
  {JoinNL(ls) : ls \in SeqsUpTo(AllLines, MaxShortLines)} \cup ExampleOutlines

Titles == { <<"T">>, <<" ", "M", "y", " ", "-", "d", "e", "c", "k">> }

GenerateRequest(title, content, template) ==
  [op |-> "generate", title |-> title, content |-> content,
   template |-> template, fname |-> None]

DownloadRequest(name) ==
  [op |-> "download", title |-> <<>>, content |-> <<>>, template |-> "",
   fname |-> Some(name)]

\* content_layouts of the registries tried
LayoutLists == { <<1, 2, 3>>, <<>>, <<2>>, <<3, 1>>, <<1, 4, 2>> }

(***************************************************************************)
(* State.                                                                  *)
(***************************************************************************)
VARIABLES
  TEMPLATES,      \* the registry, lines 53-89
  disk,           \* the template files that exist under templates/
  nLayouts,       \* len(prs.slide_layouts) of a template file
  now,            \* the wall clock at its last reading, in ticks
  generated,      \* the files under generated/: name -> content
  pending,        \* the requests still to arrive, in order
  served,         \* the number of requests received
  responses,      \* the responses returned, in order
  pc,             \* position of the request in progress
  req,            \* the request in progress
  prs,            \* the slides of the presentation, in order
  lines,          \* text_to_slides: lines
  pos,            \* text_to_slides: position of the loop in lines + [""]
  section_title,  \* text_to_slides: section_title
  bullets,        \* text_to_slides: bullets
  layout_counter, \* text_to_slides: layout_counter
  err,            \* the exception raised in the try block, if any
  fname           \* generate_ppt: fname

env == <<TEMPLATES, disk, nLayouts>>
locals == <<lines, pos, section_title, bullets, layout_counter>>
vars == <<TEMPLATES, disk, nLayouts, now, generated, pending, served, responses,
          pc, req, prs, lines, pos, section_title, bullets, layout_counter, err,
          fname>>

NoRequest == GenerateRequest(<<>>, <<>>, "")

\* line 25: os.makedirs("generated", exist_ok=True) keeps the files an
\* earlier run of the server left there, complete or truncated; request 0
\* stands for their makers
OldFileName == <<"PPT_", -1, ".pptx">>

LeftFiles ==
  {<<>>} \cup
  {(n :> [req |-> 0, slides |-> <<>>, complete |-> c]) :
     n \in {OldFileName, FileName(0)}, c \in BOOLEAN}

Idle ==
  /\ served = 0
  /\ responses = <<>>
  /\ pc = "idle"
  /\ req = NoRequest
  /\ prs = <<>>
  /\ lines = <<>>
  /\ pos = 1
  /\ section_title = None
  /\ bullets = <<>>
  /\ layout_counter = 0
  /\ err = NoError
  /\ fname = None

\* one request with an outline of sections, on registries whose layouts exist
\* and an empty generated/ directory
InitSections ==
  /\ \E cl \in { <<1, 2, 3>>, <<2>>, <<3, 1>> } : TEMPLATES = Registry(0, cl)
  /\ disk = AllTemplateFiles
  /\ nLayouts = MaxLayouts
  /\ now = MaxClock
  /\ generated = <<>>
  /\ \E c \in LongOutlines : pending = <<GenerateRequest(<<"T">>, c, "default")>>

\* one request on registries and template files that may not fit each other
InitLayouts ==
  /\ \E cover \in {0, 2}, cl \in LayoutLists : TEMPLATES = Registry(cover, cl)
  /\ disk = AllTemplateFiles
  /\ nLayouts \in 0..(MaxLayouts + 1)
  /\ now = MaxClock
  /\ generated \in LeftFiles
  /\ \E c \in ExampleOutlines : pending = <<GenerateRequest(<<"T">>, c, "default")>>

\* one request with a short outline of every kind of line
InitLines ==
  /\ TEMPLATES = CodeRegistry
  /\ disk = AllTemplateFiles
  /\ nLayouts = MaxLayouts
  /\ now = MaxClock
  /\ generated \in LeftFiles
  /\ \E c \in ShortOutlines : pending = <<GenerateRequest(<<"T">>, c, "default")>>

\* one request naming any template, registered or not, present or not
InitLookup ==
  /\ TEMPLATES = CodeRegistry
  /\ disk \in {AllTemplateFiles, AllTemplateFiles \ {TemplateFileOf["default"]},
               {TemplateFileOf["default"]}}
  /\ nLayouts = MaxLayouts
  /\ now = MaxClock
  /\ generated \in LeftFiles
  /\ \E t \in Titles, c \in ExampleOutlines, id \in TemplateIds \cup {"nosuch"} :
       pending = <<GenerateRequest(t, c, id)>>

\* several requests in a row, generations and downloads
ServerRequests ==
  {GenerateRequest(<<"T">>, c, id) :
     c \in { <<"A", "\n", "-", "x">>, <<"B", "\n", "-", "y">> },
     id \in {"default", "nosuch"}}
  \cup {DownloadRequest(f) : f \in FileNames \cup {OldFileName}}

InitServer ==
  /\ TEMPLATES = CodeRegistry
  /\ disk = AllTemplateFiles
  /\ nLayouts = MaxLayouts
  /\ now = 0
  /\ generated \in LeftFiles
  /\ pending \in SeqsUpTo(ServerRequests, MaxRequests)

Init == Idle /\ (InitSections \/ InitLayouts \/ InitLines \/ InitLookup \/ InitServer)

(***************************************************************************)
(* generate_ppt, lines 214-240, with text_to_slides, lines 92-170.         *)
(***************************************************************************)
template == GetTemplate(TEMPLATES, req.template)

\* lines 215-225: the request arrives; an unregistered template is refused
ReceiveGenerate ==
  /\ pc = "idle"
  /\ pending # <<>>
  /\ Head(pending).op = "generate"
  /\ req' = Head(pending)
  /\ pending' = Tail(pending)
  /\ served' = served + 1
  /\ prs' = <<>>
  /\ lines' = <<>>
  /\ pos' = 1
  /\ section_title' = None
  /\ bullets' = <<>>
  /\ layout_counter' = 0
  /\ err' = NoError
  /\ fname' = None
  /\ IF TemplateRegistered(TEMPLATES, req'.template)
       THEN /\ pc' = "open"
            /\ responses' = responses
       ELSE /\ pc' = "idle"
            /\ responses' = Append(responses,
                 Response(served', "generate", 400, None, "invalid_template", None))
  /\ UNCHANGED <<env, now, generated>>

\* lines 94-104: look the template up and open its file
OpenTemplate ==
  /\ pc = "open"
  /\ IF template.file \in disk
       THEN /\ pc' = "validate"
            /\ err' = err
       ELSE /\ pc' = "respond"
            /\ err' = Raise("FileNotFoundError", -1)
  /\ UNCHANGED <<env, now, generated, pending, served, responses, req, prs,
                 locals, fname>>

\* lines 106-111: check the layout indices
CheckLayouts ==
  /\ pc = "validate"
  /\ err' = ValidateLayouts(template, nLayouts)
  /\ pc' = IF err' = NoError THEN "cover" ELSE "respond"
  /\ UNCHANGED <<env, now, generated, pending, served, responses, req, prs,
                 locals, fname>>

\* lines 113-126: add the cover slide and set the loop up
AddCover ==
  /\ pc = "cover"
  /\ IF NoSuchLayout(CoverLayout(template), nLayouts)
       THEN /\ err' = Raise("IndexError", CoverLayout(template))
            /\ pc' = "respond"
            /\ UNCHANGED <<prs, locals>>
       ELSE /\ prs' = Append(prs, CoverSlide(template, req.title))
            /\ lines' = OutlineLines(req.content)
            /\ section_title' = None
            /\ bullets' = <<>>
            /\ layout_counter' = 0
            /\ pos' = 1
            /\ pc' = "loop"
            /\ err' = err
  /\ UNCHANGED <<env, now, generated, pending, served, responses, req, fname>>

\* lines 128-168: one iteration of the loop over lines + [""]
LoopStep ==
  /\ pc = "loop"
  /\ pos <= Len(Terminated(lines))
  /\ LET st == [section_title |-> section_title, bullets |-> bullets,
                layout_counter |-> layout_counter, slides |-> prs, err |-> NoError]
         r == LoopBody(st, Terminated(lines)[pos], template.content_layouts, nLayouts)
     IN /\ section_title' = r.section_title
        /\ bullets' = r.bullets
        /\ layout_counter' = r.layout_counter
        /\ prs' = r.slides
        /\ err' = r.err
        /\ pc' = IF r.err = NoError THEN "loop" ELSE "respond"
  /\ pos' = pos + 1
  /\ UNCHANGED <<env, now, generated, pending, served, responses, req, lines, fname>>

\* lines 170 and 227-236: the loop is over; serialise the presentation, name
\* the file after the clock and write it.  Serialising, opening and writing
\* may each fail; a failed write leaves a truncated file.
SaveFile ==
  /\ pc = "loop"
  /\ pos > Len(Terminated(lines))
  /\ pc' = "respond"
  /\ \/ /\ err' = Raise("SaveError", -1)
        /\ UNCHANGED <<now, fname, generated>>
     \/ \E t \in now..MaxClock :
          /\ now' = t
          /\ fname' = Some(FileName(t))
          /\ \/ /\ err' = Raise("OSError", -1)
                /\ generated' = generated
             \/ /\ err' = Raise("OSError", -1)
                /\ generated' = (FileName(t) :>
                     [req |-> served, slides |-> <<>>, complete |-> FALSE]) @@ generated
             \/ /\ err' = NoError
                /\ generated' = (FileName(t) :>
                     [req |-> served, slides |-> prs, complete |-> TRUE]) @@ generated
  /\ UNCHANGED <<env, pending, served, responses, req, prs, locals>>

\* lines 238-240: return the file name, or the error
Respond ==
  /\ pc = "respond"
  /\ responses' = Append(responses, GenerateResponse(served, err, fname))
  /\ pc' = "idle"
  /\ UNCHANGED <<env, now, generated, pending, served, req, prs, locals, err, fname>>

(***************************************************************************)
(* download_file, lines 242-251.                                           *)
(***************************************************************************)
DownloadFile ==
  /\ pc = "idle"
  /\ pending # <<>>
  /\ Head(pending).op = "download"
  /\ pending' = Tail(pending)
  /\ served' = served + 1
  /\ LET name == Head(pending).fname[1]
     IN responses' = Append(responses,
          IF name \in DOMAIN generated
            THEN Response(served', "download", 200, Some(name), "", Some(generated[name]))
            ELSE Response(served', "download", 404, None, "file_not_found", None))
  /\ UNCHANGED <<env, now, generated, pc, req, prs, locals, err, fname>>

Next ==
  \/ ReceiveGenerate
  \/ OpenTemplate
  \/ CheckLayouts
  \/ AddCover
  \/ LoopStep
  \/ SaveFile
  \/ Respond
  \/ DownloadFile

Spec == Init /\ [][Next]_vars

(***************************************************************************)
(* Vocabulary of the properties.                                           *)
(***************************************************************************)
Min(S) == CHOOSE m \in S : \A x \in S : m <= x

\* the elements of a finite set of numbers, in increasing order
RECURSIVE Ascending(_)
Ascending(S) == IF S = {} THEN <<>> ELSE <<Min(S)>> \o Ascending(S \ {Min(S)})

Last(q) == q[Len(q)]

IsContent(sl) == sl.kind = "content"
ContentSlides == SelectSeq(prs, IsContent)
ContentLayouts == template.content_layouts

\* a generation request is being handled
Handling == pc \in {"open", "validate", "cover", "loop", "respond"}

\* text_to_slides has run its loop to the end and returns prs (line 170)
Returned == pc = "loop" /\ pos > Len(Terminated(lines))

\* generate_ppt has just answered the request req
Answered ==
  /\ pc = "idle"
  /\ responses # <<>>
  /\ Last(responses).op = "generate"
  /\ Last(responses).req = served

\* the outline as the documentation reads it: the raw lines of the text, a
\* line being blank, a section title or a bullet
RawLines(text) == SplitNL(text)
IsBlankAt(raw, k) == Strip(raw[k]) = <<>>
IsBulletAt(raw, k) == ~IsBlankAt(raw, k) /\ Strip(raw[k])[1] = "-"
IsTitleAt(raw, k) == ~IsBlankAt(raw, k) /\ Strip(raw[k])[1] # "-"
TitlesOf(raw) == {k \in 1..Len(raw) : IsTitleAt(raw, k)}
BulletsOf(raw) == {k \in 1..Len(raw) : IsBulletAt(raw, k)}
TextOfBullet(raw, k) == Strip(Tail(Strip(raw[k])))

\* the bullets between the title at k and the next title or the end
BulletsUnder(raw, k) ==
  LET nxt == Min({j \in TitlesOf(raw) : j > k} \cup {Len(raw) + 1})
      idx == Ascending({j \in BulletsOf(raw) : k < j /\ j < nxt})
  IN [m \in 1..Len(idx) |-> TextOfBullet(raw, idx[m])]

\* one section per title that has bullets, in the order of the text
ExpectedSections(text) ==
  LET raw == RawLines(text)
      idx == Ascending({k \in TitlesOf(raw) : BulletsUnder(raw, k) # <<>>})
  IN [m \in 1..Len(idx) |->
        [title |-> Strip(raw[idx[m]]), bullets |-> BulletsUnder(raw, idx[m])]]

SectionsOf(slides) ==
  [m \in 1..Len(slides) |-> [title |-> slides[m].title, bullets |-> slides[m].bullets]]

RECURSIVE Flatten(_)
Flatten(qs) == IF qs = <<>> THEN <<>> ELSE Head(qs) \o Flatten(Tail(qs))

OutlineAxyBz ==
  <<"A", "\n", "-", "x", "\n", "-", "y", "\n", "\n", "B", "\n", "-", "z">>
OutlineOrphan ==
  <<"-", "o", "r", "p", "h", "a", "n", "\n", "A", "\n", "-", "x">>

(***************************************************************************)
(* C1.  The N-th content slide added uses content_layouts[(N-1) mod K],    *)
(* K the length of content_layouts, whichever line flushed it; with K = 1  *)
(* all content slides share the one layout.                                *)
(***************************************************************************)
C1_LayoutRotation ==
  Handling =>
    LET cs == ContentSlides
        K == Len(ContentLayouts)
    IN /\ \A n \in 1..Len(cs) :
            K >= 1 /\ cs[n].layout = ContentLayouts[((n - 1) % K) + 1]
       /\ K = 1 => \A n \in 1..Len(cs) : cs[n].layout = ContentLayouts[1]

\* more content slides than layouts, the last flushed by the terminator
C1_Witness ==
  /\ Returned
  /\ Len(ContentLayouts) >= 2
  /\ Len(ContentSlides) > Len(ContentLayouts)
  /\ ~StartsWithDash(lines[1])
  /\ StartsWithDash(Last(lines))

(***************************************************************************)
(* C2.  When text_to_slides returns, its content slides are, in the order  *)
(* of the text, one per section title that has at least one bullet before  *)
(* the next title or the end, with that title and those bullets, the "-"   *)
(* removed and the whitespace trimmed.  "A\n-x\n-y\n\nB\n-z" on layouts    *)
(* [1,2,3] gives {A,[x,y],1}, {B,[z],2}.                                   *)
(***************************************************************************)
C2_SectionsEmitted ==
  Returned =>
    /\ SectionsOf(ContentSlides) = ExpectedSections(req.content)
    /\ (req.content = OutlineAxyBz /\ ContentLayouts = <<1, 2, 3>>) =>
          ContentSlides =
            << Slide("content", 1, <<"A">>, << <<"x">>, <<"y">> >>),
               Slide("content", 2, <<"B">>, << <<"z">> >>) >>

C2_Witness ==
  /\ Returned
  /\ req.content = OutlineAxyBz
  /\ ContentLayouts = <<1, 2, 3>>
  /\ Len(ContentSlides) = 2

(***************************************************************************)
(* C3.  A section without bullets is never emitted: every content slide    *)
(* has a title and at least one bullet; there are as many content slides   *)
(* as there are titles directly followed by a bullet line, so a run of     *)
(* titles gives at most the slide of its last title; an outline without    *)
(* any bullet line gives no content slide.                                 *)
(***************************************************************************)
TitleThenBullet(ls) ==
  {k \in 1..(Len(ls) - 1) : ~StartsWithDash(ls[k]) /\ StartsWithDash(ls[k + 1])}

C3_NoEmptySection ==
  Handling =>
    /\ \A n \in 1..Len(ContentSlides) :
         ContentSlides[n].title # <<>> /\ ContentSlides[n].bullets # <<>>
    /\ (\A k \in 1..Len(lines) : ~StartsWithDash(lines[k])) => ContentSlides = <<>>
    /\ Len(ContentSlides) <= Cardinality(TitleThenBullet(lines))
    /\ Returned => Len(ContentSlides) = Cardinality(TitleThenBullet(lines))

\* two titles in a row, the second with a bullet, and a title at the end
C3_Witness ==
  /\ Returned
  /\ Len(lines) >= 4
  /\ ~StartsWithDash(lines[1])
  /\ ~StartsWithDash(lines[2])
  /\ StartsWithDash(lines[3])
  /\ ~StartsWithDash(Last(lines))
  /\ Len(ContentSlides) = 1

(***************************************************************************)
(* C4.  The layout indices are checked before any slide is created: when   *)
(* the cover layout or an entry of content_layouts is not below the number *)
(* of layouts of the opened template, text_to_slides raises the            *)
(* out-of-range error naming the first such index, the cover layout's      *)
(* first, and the presentation has no slide, cover or content.             *)
(***************************************************************************)
OutOfRange ==
  (IF template.cover_layout >= nLayouts THEN <<template.cover_layout>> ELSE <<>>)
  \o SelectSeq(ContentLayouts, LAMBDA idx : idx >= nLayouts)

C4_ValidatedBeforeSlides ==
  /\ (Handling /\ prs # <<>>) => OutOfRange = <<>>
  /\ (pc \in {"cover", "loop", "respond"} /\ OutOfRange # <<>>) =>
       /\ pc = "respond"
       /\ err = Raise("ValueError", OutOfRange[1])
       /\ prs = <<>>
       /\ \A f \in DOMAIN generated : generated[f].req # served

\* the cover layout exists, the second content layout does not
C4_Witness ==
  /\ pc = "respond"
  /\ err.kind = "ValueError"
  /\ template.cover_layout < nLayouts
  /\ Len(ContentLayouts) >= 2
  /\ ContentLayouts[1] < nLayouts
  /\ err.arg = ContentLayouts[2]
  /\ prs = <<>>

(***************************************************************************)
(* C5.  With an empty content_layouts the operation fails with a guarded   *)
(* configuration error for every outline: it neither returns a             *)
(* presentation nor reaches the modulo by zero.                            *)
(***************************************************************************)
C5_EmptyLayoutsRefused ==
  (Handling /\ ContentLayouts = <<>>) =>
     /\ ~Returned
     /\ err.kind # "ZeroDivisionError"

(***************************************************************************)
(* C6.  As claimed: a generation request naming an unregistered template   *)
(* falls back to the default template and proceeds instead of failing.     *)
(***************************************************************************)
C6_UnknownTemplateProceeds ==
  (Answered /\ req.template \notin DOMAIN TEMPLATES) =>
     /\ Last(responses).error # "invalid_template"
     /\ prs # <<>>
     /\ prs[1].layout = TEMPLATES["default"].cover_layout

(***************************************************************************)
(* C6, amended.  generate_ppt refuses a request naming an unregistered     *)
(* template with status 400 and an error body before text_to_slides runs:  *)
(* no slide and no file is made, and the lookup of text_to_slides, which   *)
(* would fall back to the default template, only ever sees registered      *)
(* names.                                                                  *)
(***************************************************************************)
C6_UnknownTemplateRefused ==
  /\ Handling => req.template \in DOMAIN TEMPLATES
  /\ (Answered /\ req.template \notin DOMAIN TEMPLATES) =>
       /\ Last(responses).status = 400
       /\ Last(responses).error = "invalid_template"
       /\ Last(responses).filename = None
       /\ prs = <<>>
       /\ \A f \in DOMAIN generated : generated[f].req # served

C6_Witness ==
  /\ Answered
  /\ req.template = "nosuch"
  /\ Last(responses).status = 400

(***************************************************************************)
(* C7.  Every failure between the outline and the file is answered with an *)
(* error body and a failure status, a success is answered only once the    *)
(* complete file is written under the returned name, and no success        *)
(* answer, once given, ever names a file that is missing or partly         *)
(* written.                                                                *)
(***************************************************************************)
C7_SuccessNeverPartial ==
  \A a \in 1..Len(responses) :
    (responses[a].op = "generate" /\ responses[a].status = 200) =>
       /\ responses[a].filename # None
       /\ responses[a].filename[1] \in DOMAIN generated
       /\ generated[responses[a].filename[1]].complete

(***************************************************************************)
(* C7, at the moment of the answer.  What generate_ppt itself ensures: the *)
(* answer is a failure exactly when something failed (unregistered         *)
(* template, missing template file, layout out of range, error while       *)
(* parsing, serialising, opening or writing), and a success names a file   *)
(* that at this moment exists, is complete and holds the presentation of   *)
(* this request.                                                           *)
(***************************************************************************)
AnswerMatchesOutcome ==
  Answered =>
    LET r == Last(responses)
        failed == \/ req.template \notin DOMAIN TEMPLATES
                  \/ template.file \notin disk
                  \/ OutOfRange # <<>>
                  \/ err # NoError
    IN /\ r.status \in {200, 400, 500}
       /\ failed <=> r.status >= 400
       /\ r.status >= 400 => r.error # "" /\ r.filename = None
       /\ r.status = 200 =>
            /\ r.error = ""
            /\ r.filename = fname
            /\ r.filename # None
            /\ r.filename[1] \in DOMAIN generated
            /\ generated[r.filename[1]] =
                 [req |-> served, slides |-> prs, complete |-> TRUE]
            /\ prs # <<>>

(***************************************************************************)
(* C8.  Each generation request gets a file name of its own: no two        *)
(* successful requests return the same name, and the file behind a         *)
(* returned name is the one that request produced.                         *)
(***************************************************************************)
C8_OwnFileName ==
  /\ \A a, b \in 1..Len(responses) :
       (/\ a < b
        /\ responses[a].op = "generate" /\ responses[a].status = 200
        /\ responses[b].op = "generate" /\ responses[b].status = 200)
       => responses[a].filename # responses[b].filename
  /\ \A a \in 1..Len(responses) :
       (pc = "idle" /\ responses[a].op = "generate" /\ responses[a].status = 200)
       => generated[responses[a].filename[1]].req = responses[a].req

(***************************************************************************)
(* C9.  Bullet lines before the first section title are dropped without    *)
(* an error: no slide is added and nothing is raised before the first      *)
(* title, and the bullets of the slides are exactly the bullet lines that  *)
(* come after the first title, in order.  "-orphan\nA\n-x" gives the one   *)
(* slide {A, [x], content_layouts[0]}.                                     *)
(***************************************************************************)
FirstTitle(ls) == Min({k \in 1..Len(ls) : ~StartsWithDash(ls[k])} \cup {Len(ls) + 1})

C9_OrphanBulletsDropped ==
  LET raw == RawLines(req.content)
      first == Min(TitlesOf(raw) \cup {Len(raw) + 1})
      after == Ascending({k \in BulletsOf(raw) : k > first})
  IN /\ (pc = "loop" /\ pos <= FirstTitle(lines)) =>
          ContentSlides = <<>> /\ err = NoError
     /\ Returned =>
          Flatten([n \in 1..Len(ContentSlides) |-> ContentSlides[n].bullets])
            = [m \in 1..Len(after) |-> TextOfBullet(raw, after[m])]
     /\ (Returned /\ req.content = OutlineOrphan) =>
          ContentSlides = << Slide("content", ContentLayouts[1], <<"A">>, << <<"x">> >>) >>

\* bullets, then a title with a bullet of its own
C9_Witness ==
  /\ Returned
  /\ Len(lines) >= 3
  /\ StartsWithDash(lines[1])
  /\ FirstTitle(lines) < Len(lines)
  /\ Len(ContentSlides) >= 1
  /\ Len(ContentSlides[1].bullets) = 1

(***************************************************************************)
(* C10.  A run of text_to_slides that returns has made exactly one cover   *)
(* slide: it is the first slide, on the template's cover_layout, with the  *)
(* request's title as given; every later slide is a content slide and the  *)
(* first of them is on content_layouts[0]; an empty outline gives the      *)
(* cover slide alone.                                                      *)
(***************************************************************************)
C10_CoverFirst ==
  /\ (Handling /\ prs # <<>>) =>
       /\ prs[1] = Slide("cover", template.cover_layout, req.title, <<>>)
       /\ \A n \in 2..Len(prs) : prs[n].kind = "content"
       /\ Len(prs) >= 2 => prs[2].layout = ContentLayouts[1]
  /\ pc = "loop" => prs # <<>>
  /\ (Returned /\ req.content = <<>>) => Len(prs) = 1

\* a cover and two content slides, the cover layout not among the content's
C10_Witness ==
  /\ Returned
  /\ Len(prs) = 3
  /\ Len(req.title) > 1
  /\ \A j \in 1..Len(ContentLayouts) : ContentLayouts[j] # template.cover_layout

====
